---- MODULE Spec2Model ----
(***************************************************************************)
(* State-machine model of heredity.py: exact inference by enumeration over *)
(* a pedigree.  main() loads a CSV, enumerates every (one_gene, two_genes,  *)
(* have_trait) hypothesis that agrees with the observed traits, adds each   *)
(* joint probability to per-person buckets, and normalizes.                 *)
(*                                                                         *)
(* Numbers.  Python computes in IEEE-754 binary64, and so does the model: a *)
(* number is 0 or m * 2^e with a 53-bit significand m (2^52 <= m < 2^53),   *)
(* every operation is the exact result rounded to nearest, ties to even.    *)
(* Significands and exact intermediate results are arbitrary-precision      *)
(* naturals: sequences of base-2^14 limbs, least significant first, no      *)
(* leading zero limb.  Only values >= 0 in the normal range occur.          *)
(***************************************************************************)
EXTENDS Integers, Sequences, FiniteSets, TLC

\* ------------------------------------------------------------------ bounds
\* Largest number of CSV rows (people) in an input.
MaxPeople == 3
\* Bucket values of the stand-alone normalize inputs: 0, 0.5, ..., MaxMass*0.5.
MaxMass == 1
\* The slots of a set's table that the names' hashes probe: the first Slots.
Slots == 4

\* ------------------------------------------------- binary64 arithmetic
RECURSIVE BigOf(_)
BigOf(n) == IF n = 0 THEN << >> ELSE <<n % 16384>> \o BigOf(n \div 16384)

RECURSIVE BigStrip(_)
BigStrip(a) ==
    IF a = << >> THEN a
    ELSE IF a[Len(a)] = 0 THEN BigStrip(SubSeq(a, 1, Len(a) - 1)) ELSE a

\* Limb k of a, zero beyond its length.
BigLimb(a, k) == IF k <= Len(a) THEN a[k] ELSE 0

\* a + b from limb k on, with carry c; x is the sum at limb k.
RECURSIVE BigAddC(_, _, _, _)
BigAddX(a, b, k, x) == <<x % 16384>> \o BigAddC(a, b, k + 1, x \div 16384)
BigAddC(a, b, k, c) ==
    IF k > Len(a) /\ k > Len(b)
    THEN IF c = 0 THEN << >> ELSE <<c>>
    ELSE BigAddX(a, b, k, BigLimb(a, k) + BigLimb(b, k) + c)

BigAdd(a, b) == IF a = << >> THEN b ELSE IF b = << >> THEN a ELSE BigAddC(a, b, 1, 0)

\* a - b for a >= b, from limb k on, with a borrow; x is the difference at limb k.
RECURSIVE BigSubB(_, _, _, _)
BigSubX(a, b, k, x) ==
    IF x >= 0 THEN <<x>> \o BigSubB(a, b, k + 1, 0)
    ELSE <<x + 16384>> \o BigSubB(a, b, k + 1, 1)
BigSubB(a, b, k, borrow) ==
    IF k > Len(a) THEN << >>
    ELSE BigSubX(a, b, k, a[k] - BigLimb(b, k) - borrow)

BigSub(a, b) == IF b = << >> THEN a ELSE BigStrip(BigSubB(a, b, 1, 0))

\* The sum of the limb products a[i] * b[k - i + 1] of column k, from limb i of a on.
RECURSIVE BigColumn(_, _, _, _)
BigColumn(a, b, k, i) ==
    IF i > Len(a) \/ i > k THEN 0
    ELSE (IF k - i + 1 <= Len(b) THEN a[i] * b[k - i + 1] ELSE 0)
         + BigColumn(a, b, k, i + 1)

\* a * b from column k on, with carry c; x is the sum at column k.
RECURSIVE BigMulC(_, _, _, _)
BigMulX(a, b, k, x) == <<x % 16384>> \o BigMulC(a, b, k + 1, x \div 16384)
BigMulC(a, b, k, c) ==
    IF k > Len(a) + Len(b) - 1
    THEN IF c = 0 THEN << >> ELSE <<c>>
    ELSE BigMulX(a, b, k, BigColumn(a, b, k, 1) + c)

\* a * b, for significands (at most four limbs each).
BigMul(a, b) == IF a = << >> \/ b = << >> THEN << >> ELSE BigMulC(a, b, 1, 0)

\* -1, 0, 1 as a < b, a = b, a > b.
RECURSIVE BigCmpFrom(_, _, _)
BigCmpFrom(a, b, k) ==
    IF k = 0 THEN 0
    ELSE IF a[k] < b[k] THEN -1
    ELSE IF a[k] > b[k] THEN 1
    ELSE BigCmpFrom(a, b, k - 1)

BigCmp(a, b) ==
    IF Len(a) < Len(b) THEN -1
    ELSE IF Len(a) > Len(b) THEN 1
    ELSE BigCmpFrom(a, b, Len(a))

RECURSIVE SmallBits(_)
SmallBits(x) == IF x = 0 THEN 0 ELSE 1 + SmallBits(x \div 2)

\* Number of bits of a.
BitLen(a) == IF a = << >> THEN 0 ELSE 14 * (Len(a) - 1) + SmallBits(a[Len(a)])

\* a without its top limb when that limb is zero.
BigTop(a) == IF a # << >> /\ a[Len(a)] = 0 THEN SubSeq(a, 1, Len(a) - 1) ELSE a

\* a * 2^(14 * k) * r, for a power r of 2 below 2^14
BigShlBy(a, k, r) ==
    BigTop([i \in 1..(Len(a) + k + 1) |->
              IF i <= k THEN 0
              ELSE (IF i - k <= Len(a) THEN (a[i - k] * r) % 16384 ELSE 0)
                   + (IF i - k >= 2 THEN (a[i - k - 1] * r) \div 16384 ELSE 0)])

\* a * 2^s
BigShl(a, s) ==
    IF a = << >> \/ s = 0 THEN a ELSE BigShlBy(a, s \div 14, 2 ^ (s % 14))

\* floor(a / (2^(14 * k) * r)), for a power r of 2 below 2^14
BigShrBy(a, k, r) ==
    BigTop([i \in 1..(Len(a) - k) |->
              (a[i + k] \div r)
              + (IF i + k + 1 <= Len(a) THEN (a[i + k + 1] % r) * (16384 \div r) ELSE 0)])

\* floor(a / 2^s)
BigShr(a, s) ==
    IF s = 0 THEN a
    ELSE IF s \div 14 >= Len(a) THEN << >>
    ELSE BigShrBy(a, s \div 14, 2 ^ (s % 14))

\* Bit i of a (bit 0 is the least significant), for i < BitLen(a).
BigBit(a, i) == (a[(i \div 14) + 1] \div (2 ^ (i % 14))) % 2

\* Some bit of a below bit i is set, for i < BitLen(a).
BigAnyBelow(a, i) ==
    \/ \E j \in 1..(i \div 14) : a[j] # 0
    \/ a[(i \div 14) + 1] % (2 ^ (i % 14)) # 0

Min2(a, b) == IF a <= b THEN a ELSE b

\* The float 0.0 (and the int 0 main() starts every bucket with).
Zero == [m |-> << >>, e |-> 0]

IsZero(a) == a.m = << >>

\* [m, e] for a significand q of 53 bits, or of 54 bits when rounding carried.
Carried(q, e) ==
    IF BitLen(q) = 54 THEN [m |-> BigShr(q, 1), e |-> e + 1] ELSE [m |-> q, e |-> e]

\* n of more than 53 bits rounded to nearest, ties to even: q is n without its
\* s low bits, rounded up when the first of them is set and either another is
\* (more than half), or sticky is, or q is odd (a tie).
RoundBits(n, e, sticky, s, q) ==
    Carried(IF /\ BigBit(n, s - 1) = 1
               /\ (BigAnyBelow(n, s - 1) \/ sticky \/ q[1] % 2 = 1)
            THEN BigAdd(q, <<1>>) ELSE q,
            e + s)

\* n of bits bits.
RoundLen(n, e, sticky, bits) ==
    IF bits <= 53
    THEN [m |-> BigShl(n, 53 - bits), e |-> e - (53 - bits)]
    ELSE RoundBits(n, e, sticky, bits - 53, BigShr(n, bits - 53))

\* The binary64 nearest to n * 2^e (ties to even); sticky says that the exact
\* value lies strictly above n * 2^e, by less than 2^e.
Round(n, e, sticky) == IF n = << >> THEN Zero ELSE RoundLen(n, e, sticky, BitLen(n))

\* The int n as a float (Python converts an int operand to float).
Whole(n) == Round(BigOf(n), 0, FALSE)

One == Whole(1)

\* a == b (line 228: summary != 1.0).  The representation is canonical.
NumEq(a, b) == a = b

\* a + b and a - b (a >= b) for a, b # 0: exact at the lower exponent e, rounded.
AddAt(a, b, e) == Round(BigAdd(BigShl(a.m, a.e - e), BigShl(b.m, b.e - e)), e, FALSE)
SubAt(a, b, e) == Round(BigSub(BigShl(a.m, a.e - e), BigShl(b.m, b.e - e)), e, FALSE)

\* a + b
Add(a, b) ==
    IF IsZero(a) THEN b ELSE IF IsZero(b) THEN a ELSE AddAt(a, b, Min2(a.e, b.e))

\* a * b
Mul(a, b) ==
    IF IsZero(a) \/ IsZero(b) THEN Zero
    ELSE Round(BigMul(a.m, b.m), a.e + b.e, FALSE)

\* 1 - a, for 0 <= a <= 1
OneMinus(a) == IF IsZero(a) THEN One ELSE SubAt(One, a, Min2(One.e, a.e))

\* Long division of significands, a base-2^14 digit a step.  Both are scaled
\* by 8 so that the divisor d has four limbs, the top one at least 2^13; the
\* state is [q, r]: the quotient digits so far, least significant first, and
\* the remainder.
\* The digit floor(r / d) for r < 2^14 * d: the estimate from the two top limbs
\* of r and the top limb of d is never too small, and is lowered until it fits.
RECURSIVE DivFit(_, _, _)
DivFit(r, d, digit) ==
    IF BigCmp(BigMul(d, BigOf(digit)), r) > 0 THEN DivFit(r, d, digit - 1) ELSE digit

DivDigit(r, d) ==
    DivFit(r, d, Min2(16383, (BigLimb(r, 5) * 16384 + BigLimb(r, 4)) \div d[4]))

DivTake(x, d, r, digit) ==
    [q |-> <<digit>> \o x.q, r |-> BigSub(r, BigMul(d, BigOf(digit)))]

DivShifted(x, d, r) == DivTake(x, d, r, DivDigit(r, d))

\* One more digit: the remainder moves up a limb.
DivStep(x, d) == DivShifted(x, d, IF x.r = << >> THEN x.r ELSE <<0>> \o x.r)

\* The leading digit floor(n / d), 0 or 1 as n < 2 * d.
DivStart(n, d) ==
    IF BigCmp(n, d) >= 0 THEN [q |-> <<1>>, r |-> BigSub(n, d)]
    ELSE [q |-> <<0>>, r |-> n]

\* floor(n * 2^56 / d) and the remainder, in four steps.
DivLong(n, d) == DivStep(DivStep(DivStep(DivStep(DivStart(n, d), d), d), d), d)

DivRound(x, e) == Round(BigStrip(x.q), e, x.r # << >>)

\* a / b, for b # 0
Div(a, b) ==
    IF IsZero(a) THEN Zero
    ELSE DivRound(DivLong(BigShl(a.m, 3), BigShl(b.m, 3)), a.e - b.e - 56)

\* The literals 0.00, 0.01, ..., 1.00: a decimal literal is the float nearest
\* to its value, which is the correctly rounded quotient c / 100.
Cents == [c \in 0..100 |-> Div(Whole(c), Whole(100))]

Hundredths(c) == Cents[c]

\* ---------------------------------------------------------------- tables
\* PROBS: gene prior, trait emission, mutation rate.
PROBS ==
    [gene     |-> (2 :> Hundredths(1) @@ 1 :> Hundredths(3) @@ 0 :> Hundredths(96)),
     trait    |-> (2 :> (TRUE :> Hundredths(65) @@ FALSE :> Hundredths(35)) @@
                   1 :> (TRUE :> Hundredths(56) @@ FALSE :> Hundredths(44)) @@
                   0 :> (TRUE :> Hundredths(1)  @@ FALSE :> Hundredths(99))),
     mutation |-> Hundredths(1)]

\* The literal 0.5 of lines 156 and 164.
Half == Hundredths(50)

\* ------------------------------------------------------------ input rows
\* Python's None, and the str() of the two booleans (a person's trait is
\* True, False or None; the three are kept comparable as strings).
None == "<None>"
PyBool(b) == IF b THEN "True" ELSE "False"

\* Names in CSV row order: row r of every input is named PersonNames[r].
PersonNames == <<"Harry", "James", "Lily", "Ron", "Molly">>

\* The CSV cells a row may hold.  The rows named Harry and James may name
\* "Lily" as mother, the row named Harry may name "James" as father, each
\* cell on its own: a row may name one parent only, and with fewer than three
\* rows the reference to Lily does not resolve.  The row named Harry may be
\* observed with the trait, the row named James without it.
WithMother == {"Harry", "James"}
WithFather == {"Harry"}
ObservedTrue == {"Harry"}
ObservedFalse == {"James"}
MotherCells(r) == IF PersonNames[r] \in WithMother THEN {"", "Lily"} ELSE {""}
FatherCells(r) == IF PersonNames[r] \in WithFather THEN {"", "James"} ELSE {""}
TraitCells(r)  ==
    {""} \cup (IF PersonNames[r] \in ObservedTrue THEN {"1"} ELSE {})
         \cup (IF PersonNames[r] \in ObservedFalse THEN {"0"} ELSE {})

RowCells(r) ==
    [name : {PersonNames[r]}, mother : MotherCells(r), father : FatherCells(r),
     trait : TraitCells(r)]

RECURSIVE Rows(_)
Rows(n) ==
    IF n = 0 THEN {<< >>}
    ELSE {Append(rs, row) : rs \in Rows(n - 1), row \in RowCells(n)}

Inputs == UNION {Rows(n) : n \in 0..MaxPeople}

\* --------------------------------------------------------------- load_data
\* The dict `data` as a sequence of its values in insertion order; a repeated
\* name overwrites the entry and keeps its position.
Keys(d) == {d[x].name : x \in 1..Len(d)}
IndexOf(d, name) == CHOOSE x \in 1..Len(d) : d[x].name = name
Get(d, name) == d[IndexOf(d, name)]

load_row(row) ==
    [name   |-> row.name,
     mother |-> IF row.mother = "" THEN None ELSE row.mother,
     father |-> IF row.father = "" THEN None ELSE row.father,
     trait  |-> IF row.trait = "1" THEN PyBool(TRUE)
                ELSE IF row.trait = "0" THEN PyBool(FALSE) ELSE None]

RECURSIVE load_rows(_, _, _)
load_rows(rs, r, data) ==
    IF r > Len(rs) THEN data
    ELSE LET e == load_row(rs[r])
         IN  load_rows(rs, r + 1,
                 IF e.name \in Keys(data)
                 THEN [data EXCEPT ![IndexOf(data, e.name)] = e]
                 ELSE Append(data, e))

load_data(rs) == load_rows(rs, 1, << >>)

\* --------------------------------------------------------- sets of names
\* A set of at most four strings is, in CPython, a table of eight slots that
\* holds each key in the first free slot of the key's probe sequence: the
\* slot hash & 7, then i := (5 * i + 1 + perturb) & 7 with perturb the hash
\* shifted right by 5 more bits at each step.  The hash of a string depends
\* on the hash seed of the run, and successive probes read different bits of
\* it, so a key's probes may be any slots.  A table is the sequence of its
\* slots, None where a slot is free (CPython's slot i is table[i + 1]);
\* hashes gives each name the slots it probes, in order.
TableSize == 8

EmptyTable == [i \in 1..TableSize |-> None]

RECURSIVE first_free(_, _, _)
first_free(table, probes, k) ==
    IF table[probes[k]] = None THEN probes[k] ELSE first_free(table, probes, k + 1)

\* s.add(key) for a key the table does not hold.
set_add(table, key, probes) == [table EXCEPT ![first_free(table, probes, 1)] = key]

\* The keys of l added one after the other, from l[k] on.
RECURSIVE set_update(_, _, _, _)
set_update(table, l, k, hashes) ==
    IF k > Len(l) THEN table
    ELSE set_update(set_add(table, l[k], hashes[l[k]]), l, k + 1, hashes)

\* set(l) for a listing l of distinct names, line 64.
set_of(l, hashes) == set_update(EmptyTable, l, 1, hashes)

\* Iterating a set goes through its slots in order.
set_list(table) == SelectSeq(table, LAMBDA x : x # None)

\* so - other, line 78.  The result is a new table into which the keys of so
\* that other does not hold are added in the order so lists them; when so
\* holds at least four times as many keys as other, CPython instead copies
\* the table of so slot by slot and discards the keys of other from the copy.
set_difference(so, other, hashes) ==
    IF Len(set_list(so)) \div 4 > Cardinality(other)
    THEN [i \in 1..TableSize |-> IF so[i] \in other THEN None ELSE so[i]]
    ELSE set_of(SelectSeq(set_list(so), LAMBDA x : x \notin other), hashes)

\* The probe sequences the model draws from.  With n names in all a key
\* meets at most n - 1 taken slots; only the relative position of the slots
\* probed shows in a listing, and Slots slots give three names every
\* arrangement eight slots give them.
Probes(n) ==
    {q \in [1..n -> 1..Slots] : \A x, y \in 1..n : q[x] = q[y] => x = y}

Hashes(l) == [{l[x] : x \in 1..Len(l)} -> Probes(Len(l))]

\* What a run with these hashes makes of list(names) and of
\* list(names - one_gene) for every one_gene the loop of line 77 may take,
\* names being the set of the names of l.
listed_with(l, so, hashes) ==
    [names |-> set_list(so),
     rest  |-> [og \in SUBSET {l[x] : x \in 1..Len(l)} |->
                   set_list(set_difference(so, og, hashes))]]

listed(l, hashes) == listed_with(l, set_of(l, hashes), hashes)

\* The listings of the runs on the first n names, over every hash seed.
Listings == [n \in 0..MaxPeople |->
                {listed(SubSeq(PersonNames, 1, n), h) : h \in Hashes(SubSeq(PersonNames, 1, n))}]

\* ---------------------------------------------------------------- powerset
\* list(s), line 123: the elements of s in the order of the table that holds
\* s, which tableOrder gives.
ListOf(tableOrder, s) == SelectSeq(tableOrder, LAMBDA x : x \in s)

\* itertools.combinations(l, r), each tuple turned into a set.
RECURSIVE combinations(_, _)
combinations(l, r) ==
    IF r = 0 THEN << {} >>
    ELSE IF Len(l) < r THEN << >>
    ELSE LET with == combinations(Tail(l), r - 1)
         IN  [x \in 1..Len(with) |-> {Head(l)} \cup with[x]]
             \o combinations(Tail(l), r)

RECURSIVE chain(_, _)
chain(l, r) == IF r > Len(l) THEN << >> ELSE combinations(l, r) \o chain(l, r + 1)

powerset(tableOrder, s) == chain(ListOf(tableOrder, s), 0)

\* -------------------------------------------------------- joint_probability
\* A local that may not have been assigned yet.
Unbound == [bound |-> FALSE, val |-> Zero]
Bound(v) == [bound |-> TRUE, val |-> v]

\* Lines 155-160 / 163-168: the chance that a named parent passes the gene.
from_parent(parent, one_gene, two_genes) ==
    IF parent \in one_gene THEN Half
    ELSE IF parent \in two_genes THEN OneMinus(PROBS.mutation)
    ELSE PROBS.mutation

\* Line 145.
person_genes(person, one_gene, two_genes) ==
    IF person \in two_genes THEN 2 ELSE IF person \in one_gene THEN 1 ELSE 0

\* Lines 170-175: person_prob after the branch on person_genes.
inherit(genes, from_mother, from_father) ==
    IF genes = 2 THEN Mul(One, Mul(from_mother, from_father))
    ELSE IF genes = 1
    THEN Mul(One, Add(Mul(OneMinus(from_mother), from_father),
                      Mul(OneMinus(from_father), from_mother)))
    ELSE Mul(One, Mul(OneMinus(from_mother), OneMinus(from_father)))

\* Mutant: `and` for `or` in the guard, so only zero-copy people are counted.
counted_and(person, one_gene, two_genes) ==
    person \notin one_gene /\ person \notin two_genes

\* Line 147: the guard around the body of the loop.
counted(person, one_gene, two_genes) ==
    person \notin one_gene \/ person \notin two_genes

\* Lines 151-179 for a person with a parent listed, fm and ff being the locals
\* from_mother and from_father after lines 154-168.
jp_child(genes, trait, fm, ff, st) ==
    IF ~fm.bound \/ ~ff.bound
    THEN [st EXCEPT !.from_mother = fm, !.from_father = ff,
                    !.raised = "UnboundLocalError"]
    ELSE [st EXCEPT !.from_mother = fm, !.from_father = ff,
                    !.probabilites =
                        Append(@, Mul(inherit(genes, fm.val, ff.val),
                                      PROBS.trait[genes][trait]))]

\* One iteration of the loop of line 143 for people[x]; st holds the locals
\* from_mother, from_father, the list probabilites, and the exception raised.
jp_person(people, x, one_gene, two_genes, have_trait, st) ==
    LET person == people[x].name
        genes  == person_genes(person, one_gene, two_genes)
        trait  == person \in have_trait
        mother == people[x].mother
        father == people[x].father
    IN  IF ~counted(person, one_gene, two_genes) THEN st
        ELSE IF mother # None \/ father # None
        THEN jp_child(genes, trait,
                      IF mother # None
                      THEN Bound(from_parent(mother, one_gene, two_genes))
                      ELSE st.from_mother,
                      IF father # None
                      THEN Bound(from_parent(father, one_gene, two_genes))
                      ELSE st.from_father,
                      st)
        ELSE [st EXCEPT !.probabilites =
                            Append(@, Mul(One, Mul(PROBS.gene[genes],
                                                   PROBS.trait[genes][trait])))]

RECURSIVE jp_loop(_, _, _, _, _, _)
jp_loop(people, x, one_gene, two_genes, have_trait, st) ==
    IF x > Len(people) \/ st.raised # None THEN st
    ELSE jp_loop(people, x + 1, one_gene, two_genes, have_trait,
                 jp_person(people, x, one_gene, two_genes, have_trait, st))

\* Lines 184-187.
RECURSIVE product(_, _)
product(l, x) == IF x = 0 THEN One ELSE Mul(product(l, x - 1), l[x])

\* Lines 181-190 after the loop ended in st.
jp_result(st) ==
    [raised |-> st.raised,
     value  |-> IF st.raised = None
                THEN product(st.probabilites, Len(st.probabilites))
                ELSE Zero]

\* The call: [raised, value]; value is meaningful when raised = None.
joint_probability(people, one_gene, two_genes, have_trait) ==
    jp_result(jp_loop(people, 1, one_gene, two_genes, have_trait,
                      [from_mother |-> Unbound, from_father |-> Unbound,
                       probabilites |-> << >>, raised |-> None]))

\* ------------------------------------------------------------------ update
\* Mutant: the two gene buckets exchanged.
gene_bucket_exchanged(person, one_gene, two_genes) ==
    IF person \in one_gene THEN 2 ELSE IF person \in two_genes THEN 1 ELSE 0

\* Lines 200-205: the gene bucket that receives p.
gene_bucket(person, one_gene, two_genes) ==
    IF person \in one_gene THEN 1 ELSE IF person \in two_genes THEN 2 ELSE 0

\* Lines 208-212: the trait bucket that receives p.
trait_bucket(person, have_trait) == person \in have_trait

\* Mutant: the final else of lines 204-205 missing, so bucket 0 never grows.
update_without_else(probabilities, one_gene, two_genes, have_trait, p) ==
    [person \in DOMAIN probabilities |->
        [gene  |-> [g \in 0..2 |->
                      IF g # 0 /\ g = gene_bucket(person, one_gene, two_genes)
                      THEN Add(probabilities[person].gene[g], p)
                      ELSE probabilities[person].gene[g]],
         trait |-> [t \in BOOLEAN |->
                      IF t = trait_bucket(person, have_trait)
                      THEN Add(probabilities[person].trait[t], p)
                      ELSE probabilities[person].trait[t]]]]

update(probabilities, one_gene, two_genes, have_trait, p) ==
    [person \in DOMAIN probabilities |->
        [gene  |-> [g \in 0..2 |->
                      IF g = gene_bucket(person, one_gene, two_genes)
                      THEN Add(probabilities[person].gene[g], p)
                      ELSE probabilities[person].gene[g]],
         trait |-> [t \in BOOLEAN |->
                      IF t = trait_bucket(person, have_trait)
                      THEN Add(probabilities[person].trait[t], p)
                      ELSE probabilities[person].trait[t]]]]

\* --------------------------------------------------------------- normalize
\* Mutant: a zero sum is skipped like a sum of 1, and the buckets returned as
\* they are.
normalize_trait_skipping_zero(d, summary) ==
    IF NumEq(summary, One) \/ IsZero(summary) THEN [raised |-> None, dist |-> d]
    ELSE [raised |-> None,
          dist |-> [d EXCEPT !.trait = [t \in BOOLEAN |-> Div(d.trait[t], summary)]]]

\* Lines 228-231 for one person: [raised, dist].
normalize_trait(d, summary) ==
    IF NumEq(summary, One) THEN [raised |-> None, dist |-> d]
    ELSE IF IsZero(summary) THEN [raised |-> "ZeroDivisionError", dist |-> d]
    ELSE [raised |-> None,
          dist |-> [d EXCEPT !.trait = [t \in BOOLEAN |-> Div(d.trait[t], summary)]]]

\* Mutant: line 242 missing, so the two-copy bucket is not rescaled.
normalize_gene_without_two(d, summary_genes) ==
    IF NumEq(summary_genes, One) THEN [raised |-> None, dist |-> d]
    ELSE IF IsZero(summary_genes) THEN [raised |-> "ZeroDivisionError", dist |-> d]
    ELSE [raised |-> None,
          dist |-> [d EXCEPT !.gene = [g \in 0..2 |->
                       IF g = 2 THEN d.gene[g] ELSE Div(d.gene[g], summary_genes)]]]

\* Lines 239-242 for one person.
normalize_gene(d, summary_genes) ==
    IF NumEq(summary_genes, One) THEN [raised |-> None, dist |-> d]
    ELSE IF IsZero(summary_genes) THEN [raised |-> "ZeroDivisionError", dist |-> d]
    ELSE [raised |-> None,
          dist |-> [d EXCEPT !.gene = [g \in 0..2 |-> Div(d.gene[g], summary_genes)]]]

\* Lines 233-242 after the trait part ended in t.
normalize_genes_after(t) ==
    IF t.raised # None THEN t
    ELSE normalize_gene(t.dist, Add(Add(t.dist.gene[0], t.dist.gene[1]), t.dist.gene[2]))

\* Lines 224-242 for one person.
normalize_person(d) ==
    normalize_genes_after(normalize_trait(d, Add(d.trait[FALSE], d.trait[TRUE])))

\* The loop of line 221 over the dict in insertion order (keys); it stops at
\* the first exception, leaving the entries already rescaled as they are.
RECURSIVE normalize_loop(_, _, _)
normalize_step(probabilities, keys, x, r) ==
    IF r.raised # None
    THEN [raised |-> r.raised, probabilities |-> [probabilities EXCEPT ![keys[x]] = r.dist]]
    ELSE normalize_loop([probabilities EXCEPT ![keys[x]] = r.dist], keys, x + 1)
normalize_loop(probabilities, keys, x) ==
    IF x > Len(keys) THEN [raised |-> None, probabilities |-> probabilities]
    ELSE normalize_step(probabilities, keys, x, normalize_person(probabilities[keys[x]]))

normalize(probabilities, keys) == normalize_loop(probabilities, keys, 1)

\* -------------------------------------------------------------------- main
VARIABLES
    rows,           \* the CSV file named on the command line
    order,          \* list(names) in this run: the table of line 64 in slot order
    restOrder,      \* one_gene -> list(names - one_gene) in this run (line 78)
    pc,             \* where main() is
    people,         \* load_data's dict, in insertion order
    probabilities,  \* person -> [gene, trait] buckets
    have_trait, one_gene, two_genes,   \* the loop variables of lines 65, 77, 78
    ti, oi, wi,     \* how many items each of the three loops has taken
    p,              \* the local p of main(), lines 81 and 93
    raised,         \* the exception that ended the run, or None
    output,         \* what lines 88-94 printed: (person, distributions) in order
    accumulated,    \* history: the hypotheses passed to update, call after call
    nJoint,         \* history: calls of joint_probability
    nUpdates,       \* history: calls of update
    total,          \* history: sum of every p passed to update
    nNormalize,     \* history: calls of normalize
    raw             \* history: probabilities as normalize received them

vars == <<rows, order, restOrder, pc, people, probabilities, have_trait, one_gene, two_genes,
          ti, oi, wi, p, raised, output, accumulated, nJoint, nUpdates, total, nNormalize, raw>>

names == Keys(people)

\* powerset(names), lines 65 and 77, and powerset(names - one_gene), line 78,
\* as this run computes them: names and every difference are tables of their
\* own, each listed in the order of its own slots.
powerset_names == powerset(order, names)
powerset_rest == powerset(restOrder[one_gene], names \ one_gene)
keys == [x \in 1..Len(people) |-> people[x].name]

\* Lines 48-61.
zero_distribution ==
    [gene |-> [g \in 0..2 |-> Zero], trait |-> [t \in BOOLEAN |-> Zero]]

NoOne == [person \in {} |-> zero_distribution]

\* Mutant: only people observed with the trait are checked.
fails_evidence_true_only(ppl, ht) ==
    \E person \in Keys(ppl) :
        /\ Get(ppl, person).trait = "True"
        /\ person \notin ht

\* Lines 68-72.
fails_evidence(ppl, ht) ==
    \E person \in Keys(ppl) :
        /\ Get(ppl, person).trait # None
        /\ Get(ppl, person).trait # PyBool(person \in ht)

Init ==
    /\ rows \in Inputs
    /\ order = << >>
    /\ restOrder = << >>
    /\ pc = "Init"
    /\ people = << >>
    /\ probabilities = NoOne
    /\ have_trait = {} /\ one_gene = {} /\ two_genes = {}
    /\ ti = 0 /\ oi = 0 /\ wi = 0
    /\ p = Zero
    /\ raised = None
    /\ output = << >>
    /\ accumulated = << >>
    /\ nJoint = 0 /\ nUpdates = 0
    /\ total = Zero
    /\ nNormalize = 0
    /\ raw = NoOne

\* Lines 45-64: load the file, build the all-zero buckets and the set names.
\* The rows of an input are named by the first names of PersonNames, and the
\* hash seed of the run settles how it will list each set of them.
Load ==
    /\ pc = "Init"
    /\ people' = load_data(rows)
    /\ \E l \in Listings[Len(people')] :
           /\ order' = l.names
           /\ restOrder' = l.rest
    /\ probabilities' = [person \in Keys(people') |-> zero_distribution]
    /\ pc' = "EnumeratingTraitSets"
    /\ UNCHANGED <<rows, have_trait, one_gene, two_genes, ti, oi, wi, p, raised,
                   output, accumulated, nJoint, nUpdates, total, nNormalize, raw>>

\* Line 65, the loop is exhausted: go on to line 85.
TraitSetsExhausted ==
    /\ pc = "EnumeratingTraitSets"
    /\ ti = Len(powerset_names)
    /\ pc' = "Normalizing"
    /\ UNCHANGED <<rows, order, restOrder, people, probabilities, have_trait, one_gene, two_genes,
                   ti, oi, wi, p, raised, output, accumulated, nJoint, nUpdates,
                   total, nNormalize, raw>>

\* Lines 65-74: the next have_trait violates the evidence: continue.
TraitSetDiscarded ==
    /\ pc = "EnumeratingTraitSets"
    /\ ti < Len(powerset_names)
    /\ fails_evidence(people, powerset_names[ti + 1])
    /\ have_trait' = powerset_names[ti + 1]
    /\ ti' = ti + 1
    /\ UNCHANGED <<rows, order, restOrder, pc, people, probabilities, one_gene, two_genes, oi, wi,
                   p, raised, output, accumulated, nJoint, nUpdates, total, nNormalize, raw>>

\* Lines 65-77: the next have_trait agrees with the evidence: enter line 77.
TraitSetKept ==
    /\ pc = "EnumeratingTraitSets"
    /\ ti < Len(powerset_names)
    /\ ~fails_evidence(people, powerset_names[ti + 1])
    /\ have_trait' = powerset_names[ti + 1]
    /\ ti' = ti + 1
    /\ oi' = 0 /\ wi' = 0
    /\ pc' = "EnumeratingGeneSets"
    /\ UNCHANGED <<rows, order, restOrder, people, probabilities, one_gene, two_genes, p, raised,
                   output, accumulated, nJoint, nUpdates, total, nNormalize, raw>>

\* The loop of line 78 has no item left (or line 77 has not taken one yet).
InnerExhausted == oi = 0 \/ wi = Len(powerset_rest)

\* Line 77: take the next one_gene and start line 78 over names - one_gene.
OneGeneNext ==
    /\ pc = "EnumeratingGeneSets"
    /\ InnerExhausted
    /\ oi < Len(powerset_names)
    /\ one_gene' = powerset_names[oi + 1]
    /\ oi' = oi + 1
    /\ wi' = 0
    /\ UNCHANGED <<rows, order, restOrder, pc, people, probabilities, have_trait, two_genes, ti, p,
                   raised, output, accumulated, nJoint, nUpdates, total, nNormalize, raw>>

\* Line 78: take the next two_genes and enter the body.
TwoGenesNext ==
    /\ pc = "EnumeratingGeneSets"
    /\ oi > 0
    /\ wi < Len(powerset_rest)
    /\ two_genes' = powerset_rest[wi + 1]
    /\ wi' = wi + 1
    /\ pc' = "Accumulating"
    /\ UNCHANGED <<rows, order, restOrder, people, probabilities, have_trait, one_gene, ti, oi, p,
                   raised, output, accumulated, nJoint, nUpdates, total, nNormalize, raw>>

\* Lines 77-78, both loops exhausted: back to line 65.
GeneSetsExhausted ==
    /\ pc = "EnumeratingGeneSets"
    /\ InnerExhausted
    /\ oi = Len(powerset_names)
    /\ pc' = "EnumeratingTraitSets"
    /\ UNCHANGED <<rows, order, restOrder, people, probabilities, have_trait, one_gene, two_genes,
                   ti, oi, wi, p, raised, output, accumulated, nJoint, nUpdates,
                   total, nNormalize, raw>>

hypothesis == [one_gene |-> one_gene, two_genes |-> two_genes, have_trait |-> have_trait]

\* Line 81: the call main() makes for the current loop variables.
joint == joint_probability(people, one_gene, two_genes, have_trait)

\* Line 85: the call main() makes.
normalized == normalize(probabilities, keys)

\* Lines 81-82 once joint_probability has ended in j: update adds p, or the
\* exception leaves main().
Accumulated(j) ==
    IF j.raised = None
    THEN /\ p' = j.value
         /\ probabilities' = update(probabilities, one_gene, two_genes, have_trait, j.value)
         /\ total' = Add(total, j.value)
         /\ accumulated' = Append(accumulated, hypothesis)
         /\ nUpdates' = nUpdates + 1
         /\ pc' = "EnumeratingGeneSets"
         /\ UNCHANGED raised
    ELSE /\ raised' = j.raised
         /\ pc' = "Error"
         /\ UNCHANGED <<p, probabilities, total, accumulated, nUpdates>>

\* Lines 81-82.
Accumulate ==
    /\ pc = "Accumulating"
    /\ nJoint' = nJoint + 1
    /\ Accumulated(joint)
    /\ UNCHANGED <<rows, order, restOrder, people, have_trait, one_gene, two_genes, ti, oi, wi,
                   output, nNormalize, raw>>

\* Line 85 once normalize has ended in r.
Normalized(r) ==
    /\ probabilities' = r.probabilities
    /\ raised' = r.raised
    /\ pc' = IF r.raised = None THEN "Printing" ELSE "Error"

\* Line 85: normalize returns, or raises and the exception leaves main().
Normalize ==
    /\ pc = "Normalizing"
    /\ Normalized(normalized)
    /\ raw' = probabilities
    /\ nNormalize' = nNormalize + 1
    /\ UNCHANGED <<rows, order, restOrder, people, have_trait, one_gene, two_genes, ti, oi, wi, p,
                   output, accumulated, nJoint, nUpdates, total>>

\* Lines 88-94 (the four-digit formatting of each value is not modelled).
\* Line 93 binds the local p to each value printed: the last is the trait
\* bucket False of the last person.
PrintResults ==
    /\ pc = "Printing"
    /\ p' = IF Len(people) = 0 THEN p
            ELSE probabilities[people[Len(people)].name].trait[FALSE]
    /\ output' = [x \in 1..Len(people) |->
                    [person |-> people[x].name,
                     gene   |-> probabilities[people[x].name].gene,
                     trait  |-> probabilities[people[x].name].trait]]
    /\ pc' = "Done"
    /\ UNCHANGED <<rows, order, restOrder, people, probabilities, have_trait, one_gene, two_genes,
                   ti, oi, wi, raised, accumulated, nJoint, nUpdates, total, nNormalize, raw>>

Next ==
    \/ Load
    \/ TraitSetsExhausted
    \/ TraitSetDiscarded
    \/ TraitSetKept
    \/ OneGeneNext
    \/ TwoGenesNext
    \/ GeneSetsExhausted
    \/ Accumulate
    \/ Normalize
    \/ PrintResults

Spec == Init /\ [][Next]_vars

\* ------------------------------------------------- normalize on its own
\* normalize(probabilities) called on arbitrary accumulated buckets of two
\* people: every bucket is one of 0, 0.5, ..., MaxMass * 0.5.
NormalizeRows ==
    <<[name |-> "Harry", mother |-> "", father |-> "", trait |-> ""],
      [name |-> "James", mother |-> "", father |-> "", trait |-> ""]>>

Masses == {Hundredths(50 * m) : m \in 0..MaxMass}

Distributions == [gene : [0..2 -> Masses], trait : [BOOLEAN -> Masses]]

InitNormalize ==
    /\ rows = NormalizeRows
    /\ order = << >>
    /\ restOrder = << >>
    /\ pc = "Normalizing"
    /\ people = load_data(NormalizeRows)
    /\ probabilities \in [Keys(load_data(NormalizeRows)) -> Distributions]
    /\ have_trait = {} /\ one_gene = {} /\ two_genes = {}
    /\ ti = 0 /\ oi = 0 /\ wi = 0
    /\ p = Zero
    /\ raised = None
    /\ output = << >>
    /\ accumulated = << >>
    /\ nJoint = 0 /\ nUpdates = 0
    /\ total = Zero
    /\ nNormalize = 0
    /\ raw = NoOne

NextNormalize == Normalize \/ PrintResults

SpecNormalize == InitNormalize /\ [][NextNormalize]_vars

\* ================================================================ properties
Sum3(f) == Add(Add(f[0], f[1]), f[2])
Sum2(f) == Add(f[FALSE], f[TRUE])

\* The exact value of a as a multiple of 2^e, for e no greater than a.e.
Scaled(a, e) == IF IsZero(a) THEN << >> ELSE BigShl(a.m, a.e - e)

\* hi - lo <= k * 2^-52 * hi, for naturals hi >= lo.
BigWithin(hi, lo, k) == BigCmp(BigShl(BigSub(hi, lo), 52), BigMul(hi, BigOf(k))) <= 0

BigClose(x, y, k) == IF BigCmp(x, y) >= 0 THEN BigWithin(x, y, k) ELSE BigWithin(y, x, k)

WithinAt(a, b, k, e) == BigClose(Scaled(a, e), Scaled(b, e), k)

\* a and b are equal up to k roundings: |a - b| <= k * 2^-52 * max(a, b),
\* computed exactly (2^-52 is the gap between 1.0 and the next float).
Within(a, b, k) ==
    WithinAt(a, b, k, IF IsZero(a) THEN b.e ELSE IF IsZero(b) THEN a.e ELSE Min2(a.e, b.e))

\* The people whose trait the CSV gives.
Observed(ppl) == {person \in Keys(ppl) : Get(ppl, person).trait # None}

\* A hypothesis agrees with the evidence: membership in haveTrait equals the
\* observed value for every person whose trait is known.
EvidenceConsistent(ppl, ht) ==
    \A person \in Observed(ppl) : (person \in ht) <=> (Get(ppl, person).trait = "True")

\* Every hypothesis the driver has to accumulate.
ValidHypotheses ==
    {h \in [one_gene : SUBSET names, two_genes : SUBSET names, have_trait : SUBSET names] :
        /\ h.one_gene \cap h.two_genes = {}
        /\ EvidenceConsistent(people, h.have_trait)}

RECURSIVE Pow(_, _)
Pow(b, e) == IF e = 0 THEN 1 ELSE b * Pow(b, e - 1)

\* The hypotheses passed to update so far.
AccumulatedSet == {accumulated[k] : k \in 1..Len(accumulated)}

EnumerationOver == pc \in {"Normalizing", "Printing", "Done"}

\* The state right after lines 81-82 ran for (one_gene, two_genes, have_trait).
JustAccumulated == pc = "EnumeratingGeneSets" /\ oi > 0 /\ wi > 0

\* What C1 says of the calls made so far: an update follows each call of
\* joint_probability for the same hypothesis, each hypothesis accumulated is
\* valid (disjoint gene sets, evidence-consistent) and none is accumulated
\* twice.
AccumulatedOnce ==
    /\ JustAccumulated =>
          /\ Len(accumulated) > 0
          /\ accumulated[Len(accumulated)] = hypothesis
          /\ hypothesis \in ValidHypotheses
    /\ nUpdates = Len(accumulated)
    /\ Cardinality(AccumulatedSet) = Len(accumulated)

\* The valid hypotheses are all accumulated: 2^n * 3^n of them when no trait
\* is observed.
AllAccumulated ==
    /\ AccumulatedSet = ValidHypotheses
    /\ Observed(people) = {} =>
          nUpdates = Pow(2, Len(people)) * Pow(3, Len(people))

\* C1: for any population, every call of joint_probability is followed by
\* the call of update for the same hypothesis, only valid hypotheses are
\* accumulated, none twice, and when main() has stopped every valid
\* hypothesis has been accumulated, none skipped: 2^n * 3^n of them when no
\* trait is observed.
C1_EachHypothesisOnce ==
    /\ AccumulatedOnce
    /\ nJoint = nUpdates
    /\ pc \in {"Normalizing", "Printing", "Done", "Error"} => AllAccumulated

\* C1 on the runs that joint_probability does not abort: the calls come in
\* pairs, and once the three loops are over every valid hypothesis has been
\* accumulated.
C1_OnceWhenEnumerationOver ==
    /\ AccumulatedOnce
    /\ pc # "Error" => nJoint = nUpdates
    /\ EnumerationOver => AllAccumulated

\* Each person has both parents, resolving to people of the population, or none.
WellFormed(ppl) ==
    \A x \in 1..Len(ppl) :
        \/ ppl[x].mother = None /\ ppl[x].father = None
        \/ ppl[x].mother \in Keys(ppl) /\ ppl[x].father \in Keys(ppl)

\* The generative model as the specification states it.
GeneCount(person, h) ==
    IF person \in h.two_genes THEN 2 ELSE IF person \in h.one_gene THEN 1 ELSE 0

Transmits(parent, h) ==
    CASE GeneCount(parent, h) = 2 -> Hundredths(99)
      [] GeneCount(parent, h) = 1 -> Hundredths(50)
      [] GeneCount(parent, h) = 0 -> Hundredths(1)

GeneProbability(ppl, person, h) ==
    LET g  == GeneCount(person, h)
        me == Get(ppl, person)
    IN  IF me.mother = None /\ me.father = None
        THEN CASE g = 2 -> Hundredths(1) [] g = 1 -> Hundredths(3) [] g = 0 -> Hundredths(96)
        ELSE LET pM == Transmits(me.mother, h)
                 pF == Transmits(me.father, h)
             IN  CASE g = 2 -> Mul(pM, pF)
                   [] g = 1 -> Add(Mul(pM, OneMinus(pF)), Mul(OneMinus(pM), pF))
                   [] g = 0 -> Mul(OneMinus(pM), OneMinus(pF))

TraitEmission(g, t) ==
    CASE g = 2 -> IF t THEN Hundredths(65) ELSE Hundredths(35)
      [] g = 1 -> IF t THEN Hundredths(56) ELSE Hundredths(44)
      [] g = 0 -> IF t THEN Hundredths(1) ELSE Hundredths(99)

\* The product over the first x people of the file, in floats, left to right.
RECURSIVE ModelJoint(_, _, _)
ModelJoint(ppl, x, h) ==
    IF x = 0 THEN One
    ELSE Mul(ModelJoint(ppl, x - 1, h),
             Mul(GeneProbability(ppl, ppl[x].name, h),
                 TraitEmission(GeneCount(ppl[x].name, h), ppl[x].name \in h.have_trait)))

\* C2: on a population whose every person has both parents (in the population)
\* or none, joint_probability of a hypothesis with disjoint gene sets is the
\* product over every person of P(gene) * TraitEmission, the float that the
\* formula gives when evaluated person by person in file order.
C2_JointIsProduct ==
    (JustAccumulated /\ WellFormed(people)) =>
        NumEq(p, ModelJoint(people, Len(people), hypothesis))

\* A child with both parents in the population, carrying one copy while its
\* mother carries two and its father none, one trait unobserved and absent.
C2_Witness ==
    /\ JustAccumulated
    /\ WellFormed(people)
    /\ \E x \in 1..Len(people) :
          /\ people[x].mother # None
          /\ people[x].name \in one_gene
          /\ people[x].mother \in two_genes
          /\ people[x].father \notin one_gene \cup two_genes
          /\ people[x].trait = None
          /\ people[x].name \notin have_trait

Finished == pc \in {"Printing", "Done"}

\* Every bucket is the accumulated value divided by the sum of its distribution.
RescaledBySum(person) ==
    /\ \A g \in 0..2 :
          NumEq(probabilities[person].gene[g],
                Div(raw[person].gene[g], Sum3(raw[person].gene)))
    /\ \A t \in BOOLEAN :
          NumEq(probabilities[person].trait[t],
                Div(raw[person].trait[t], Sum2(raw[person].trait)))

\* C3, amended: after a completed run, each person's gene buckets and trait
\* buckets sum to 1 up to rounding (within 4 * 2^-52 of 1.0), and every bucket
\* is the accumulated value divided by the sum of its distribution.
C3_NormalizedSumsToOneRounded ==
    Finished =>
        \A person \in names :
            /\ Within(Sum3(probabilities[person].gene), One, 4)
            /\ Within(Sum2(probabilities[person].trait), One, 4)
            /\ RescaledBySum(person)

\* C3 as stated: after a completed run, each person's gene buckets sum to 1,
\* the trait buckets sum to 1, and every bucket is the accumulated value
\* divided by the sum of its distribution.
C3_NormalizedSumsToOne ==
    Finished =>
        \A person \in names :
            /\ NumEq(Sum3(probabilities[person].gene), One)
            /\ NumEq(Sum2(probabilities[person].trait), One)
            /\ \A g \in 0..2 :
                  NumEq(probabilities[person].gene[g],
                        Div(raw[person].gene[g], Sum3(raw[person].gene)))
            /\ \A t \in BOOLEAN :
                  NumEq(probabilities[person].trait[t],
                        Div(raw[person].trait[t], Sum2(raw[person].trait)))

\* A finished run on three people whose accumulated mass was not 1, and where
\* the rescaled gene buckets of someone do not add up to 1.0 exactly.
C3_Witness ==
    /\ pc = "Done"
    /\ Len(people) = 3
    /\ \E person \in names :
          /\ ~NumEq(Sum3(raw[person].gene), One)
          /\ ~NumEq(Sum3(probabilities[person].gene), One)

\* Some person's accumulated gene or trait distribution has no mass.
ZeroMass(probs) ==
    \E person \in DOMAIN probs :
        IsZero(Sum3(probs[person].gene)) \/ IsZero(Sum2(probs[person].trait))

\* C4: when some distribution sums to zero normalize raises and nothing is
\* returned or printed; when every sum is positive it returns normally, zero
\* buckets or not.
C4_ZeroMassIsAnError ==
    nNormalize > 0 =>
        /\ ZeroMass(raw) =>
              /\ pc = "Error"
              /\ raised = "ZeroDivisionError"
              /\ output = << >>
        /\ ~ZeroMass(raw) => (raised = None /\ Finished)

\* normalize raised on the second person after rescaling the first, whose
\* distribution had a zero bucket but positive mass.
C4_Witness ==
    /\ nNormalize > 0
    /\ pc = "Error"
    /\ ~IsZero(Sum2(raw["Harry"].trait)) /\ IsZero(raw["Harry"].trait[TRUE])
    /\ ~IsZero(Sum3(raw["Harry"].gene))
    /\ IsZero(Sum3(raw["James"].gene)) /\ ~IsZero(Sum2(raw["James"].trait))

\* C5: after a completed run a person observed with trait t has exactly 1 on
\* t and exactly 0 on the other value.
C5_EvidenceIsCertain ==
    Finished =>
        \A person \in Observed(people) :
            LET t == Get(people, person).trait = "True"
            IN  /\ NumEq(probabilities[person].trait[t], One)
                /\ IsZero(probabilities[person].trait[~t])

\* A finished run with one person observed with the trait, one observed
\* without, and one unobserved.
C5_Witness ==
    /\ pc = "Done"
    /\ \E a, b, c \in names :
          /\ Get(people, a).trait = "True"
          /\ Get(people, b).trait = "False"
          /\ Get(people, c).trait = None

\* The bucket the specification names for a person.
ClaimedGene(person, g) ==
    CASE g = 1 -> person \in one_gene
      [] g = 2 -> person \in two_genes
      [] g = 0 -> person \notin one_gene \cup two_genes

\* C6: one update adds p to exactly the gene bucket and the trait bucket the
\* hypothesis assigns to each person, leaves the other buckets as they were,
\* and the gene bucket is the gene count joint_probability used.
C6_UpdateAddsToOneBucket ==
    [][nUpdates' = nUpdates + 1 =>
          \A person \in names :
              /\ \A g \in 0..2 :
                    IF ClaimedGene(person, g)
                    THEN NumEq(probabilities'[person].gene[g],
                               Add(probabilities[person].gene[g], p'))
                    ELSE probabilities'[person].gene[g] = probabilities[person].gene[g]
              /\ \A t \in BOOLEAN :
                    IF t = (person \in have_trait)
                    THEN NumEq(probabilities'[person].trait[t],
                               Add(probabilities[person].trait[t], p'))
                    ELSE probabilities'[person].trait[t] = probabilities[person].trait[t]
              /\ gene_bucket(person, one_gene, two_genes)
                     = person_genes(person, one_gene, two_genes)]_vars

\* An update for a hypothesis with someone in each of the three gene classes.
C6_Witness ==
    /\ JustAccumulated
    /\ one_gene # {} /\ two_genes # {} /\ one_gene \cup two_genes # names
    /\ have_trait # {} /\ have_trait # names
    /\ ~IsZero(p)

\* The CSV breaks the parent rule: a parent cell names nobody of the file, or
\* exactly one of mother / father is filled in.
Malformed(rs) ==
    \E r \in 1..Len(rs) :
        \/ (rs[r].mother = "") # (rs[r].father = "")
        \/ rs[r].mother # "" /\ rs[r].mother \notin {rs[q].name : q \in 1..Len(rs)}
        \/ rs[r].father # "" /\ rs[r].father \notin {rs[q].name : q \in 1..Len(rs)}

\* C7: a malformed CSV is rejected at load time: no joint_probability call,
\* no update call, nothing printed.
C7_MalformedRejectedAtLoad ==
    Malformed(rows) => (nJoint = 0 /\ nUpdates = 0 /\ output = << >>)

\* people with the mother and father of people[x] exchanged.
SwapParents(ppl, x) ==
    [ppl EXCEPT ![x] = [@ EXCEPT !.mother = ppl[x].father, !.father = ppl[x].mother]]

SameOutcome(a, b) ==
    /\ a.raised = b.raised
    /\ a.raised = None => NumEq(a.value, b.value)

\* C8: exchanging the mother and father of a child leaves joint_probability
\* of every hypothesis unchanged.
C8_ParentSwapSymmetric ==
    pc = "Accumulating" =>
        \A x \in 1..Len(people) :
            (people[x].mother # None /\ people[x].father # None) =>
                SameOutcome(
                    joint_probability(people, one_gene, two_genes, have_trait),
                    joint_probability(SwapParents(people, x), one_gene, two_genes,
                                      have_trait))

\* C8 restricted to populations that satisfy the parent rule (holds).
C8_SymmetricWhenWellFormed == WellFormed(people) => C8_ParentSwapSymmetric

\* C9, safety: normalize runs at most once, only when the three loops are
\* over and every hypothesis is accumulated, and nothing is accumulated after.
C9_NormalizeOnceAfterEnumeration ==
    /\ nNormalize <= 1
    /\ pc \in {"Printing", "Done"} => nNormalize = 1
    /\ nNormalize = 1 =>
          /\ pc \in {"Printing", "Done", "Error"}
          /\ ti = Len(powerset_names)
          /\ AccumulatedSet = ValidHypotheses
    /\ pc = "Normalizing" => (nNormalize = 0 /\ AccumulatedSet = ValidHypotheses)

\* main() has stopped: every action is guarded by another value of pc.
Halted == pc \in {"Done", "Error"}

\* C9: the safety part, and a run stops only in its final state Done.
C9_RunReachesDone ==
    /\ C9_NormalizeOnceAfterEnumeration
    /\ Halted => pc = "Done"

\* C10, amended: during the enumeration every person's gene buckets and trait
\* buckets both sum, up to rounding, to the total of the joint probabilities
\* accumulated so far: after k updates the relative difference is at most
\* (k + 1) * 2^-52.
C10_BucketsSumToTotalRounded ==
    nNormalize = 0 =>
        \A person \in names :
            /\ Within(Sum3(probabilities[person].gene), total, nUpdates + 1)
            /\ Within(Sum2(probabilities[person].trait), total, nUpdates + 1)

\* C10 as stated: during the enumeration every person's gene buckets and trait
\* buckets both sum to the total of the joint probabilities accumulated so
\* far, the same value for every person.
C10_BucketsSumToTotal ==
    nNormalize = 0 =>
        \A person \in names :
            /\ NumEq(Sum3(probabilities[person].gene), total)
            /\ NumEq(Sum2(probabilities[person].trait), total)

\* Three people, several updates in, with mass in more than one gene bucket,
\* and the gene buckets of someone not adding up to the total exactly.
C10_Witness ==
    /\ JustAccumulated
    /\ Len(people) = 3
    /\ nUpdates >= 5
    /\ \E person \in names :
          /\ ~IsZero(probabilities[person].gene[1])
          /\ ~IsZero(probabilities[person].gene[2])
          /\ ~NumEq(Sum3(probabilities[person].gene), total)

====
